---- MODULE Spec2Model ----
(***************************************************************************)
(* Cardinal Neighbor quadtree (cnquadtree): the arena-backed tree of       *)
(* src/src/slottree.rs with the generic algorithms of src/src/tree.rs,     *)
(* the node record of src/src/node.rs and the direction model of           *)
(* src/src/location.rs.                                                    *)
(*                                                                         *)
(* Keys of the slot map are modelled as naturals drawn from a counter: a   *)
(* slot map key carries a version, so a removed key never resolves again.  *)
(* Option<key> is a key or None (0); Option<[key; 4]> is a 4-tuple or the  *)
(* empty tuple.  Tuples are 1-based: slot d of the code is slot d + 1.     *)
(***************************************************************************)
EXTENDS Integers, Sequences, FiniteSets, TLC

VARIABLES store, layers, nextKey, root_key, panicked, last

vars == <<store, layers, nextKey, root_key, panicked, last>>

(* ------------------------------ bounds -------------------------------- *)

\* Nodes at this depth are not split any further.
MaxDepth == 3
\* Total number of successful or aborted subdivisions in one run.
MaxSplits == 3

\* Root bounds handed to new().
RootBounds == { <<0, 0, 100, 100>>, <<1, 1, 3, 3>>, <<0, 0, 1, 1>> }
\* Coordinates of the points handed to point_locate.
PointCoords == {0, 2, 60, 100}

(* --------------------------- direction model -------------------------- *)

West == 0
North == 1
East == 2
South == 3
Directions == {West, North, East, South}

NorthWest == 0
NorthEast == 1
SouthWest == 2
SouthEast == 3

opposite(d) == (d + 2) % 4

\* next_neighbor as a quarter turn.
next_neighbor_quarter_turn(d) == (d + 1) % 4

next_neighbor(d) == 3 - d

(* ------------------------------ node record --------------------------- *)

None == 0
NoChildren == << >>

CNNode_new(item, layer, bounds, parent) ==
  [ item |-> item, layer |-> layer, bounds |-> bounds, parent |-> parent,
    neighbors |-> <<None, None, None, None>>, children |-> NoChildren ]

has_children(node) == node.children # NoChildren

get_cardinal_neighbor_index(node, d) == node.neighbors[d + 1]

\* point_in with <= on the upper bounds (half-open intervals lost).
point_in_closed(bounds, point) ==
  /\ bounds[1] <= point[1] /\ point[1] <= bounds[3]
  /\ bounds[2] <= point[2] /\ point[2] <= bounds[4]

point_in(bounds, point) ==
  /\ bounds[1] <= point[1] /\ point[1] < bounds[3]
  /\ bounds[2] <= point[2] /\ point[2] < bounds[4]

update_neighbor(st, k, new_neighbor, d) ==
  [st EXCEPT ![k].neighbors[d + 1] = new_neighbor]

Range(s) == { s[i] : i \in 1..Len(s) }

(* ------------------------- get_neighbors (tree.rs) -------------------- *)

NoneVec == [some |-> FALSE, vec |-> << >>, hang |-> FALSE]
SomeVec(v) == [some |-> TRUE, vec |-> v, hang |-> FALSE]
HangVec(v) == [some |-> FALSE, vec |-> v, hang |-> TRUE]

\* The loop of get_neighbors.  Its only loop-carried state besides the
\* result is neighbor_index, so the loop runs forever exactly when an index
\* becomes the current neighbor a second time.
RECURSIVE neighbor_walk(_, _, _, _, _)
neighbor_walk(st, node, direction, neighbor_index, result) ==
  LET pushed == Append(result, neighbor_index)
      next == get_cardinal_neighbor_index(st[neighbor_index], next_neighbor(direction))
  IN IF next = None \/ next \notin DOMAIN st THEN SomeVec(pushed)
     ELSE LET neighbor == st[next]
              opposite_side_index == get_cardinal_neighbor_index(neighbor, opposite(direction))
          IN IF opposite_side_index = None \/ opposite_side_index \notin DOMAIN st
             THEN SomeVec(pushed)
             ELSE IF neighbor.layer >= node.layer
                     \/ node.bounds # st[opposite_side_index].bounds
                  THEN SomeVec(pushed)
                  ELSE IF next \in Range(pushed) THEN HangVec(pushed)
                       ELSE neighbor_walk(st, node, direction, next, pushed)

\* get_neighbors returning a present empty list for a node without a pointer.
get_neighbors_empty(st, index, direction) ==
  IF index \notin DOMAIN st THEN NoneVec
  ELSE LET first == get_cardinal_neighbor_index(st[index], direction)
       IN IF first = None THEN SomeVec(<< >>)
          ELSE IF first \notin DOMAIN st THEN NoneVec
          ELSE neighbor_walk(st, st[index], direction, first, << >>)

get_neighbors(st, index, direction) ==
  IF index \notin DOMAIN st THEN NoneVec
  ELSE LET first == get_cardinal_neighbor_index(st[index], direction)
       IN IF first = None THEN NoneVec
          ELSE IF first \notin DOMAIN st THEN NoneVec
          ELSE neighbor_walk(st, st[index], direction, first, << >>)

(* --------------------- find_cardinal_neighbor (tree.rs) --------------- *)

Max(a, b) == IF a >= b THEN a ELSE b

\* layers.resize(index + 1, 0) when index >= layers.len()
resize(v, n) == IF Len(v) >= n THEN v ELSE v \o [i \in 1..(n - Len(v)) |-> 0]

\* for index in (0..layers.len()).rev(): carry a full counter upwards
RECURSIVE carry(_, _)
carry(v, index) ==
  IF index < 0 THEN v
  ELSE IF v[index + 1] >= 2 /\ index # 0
       THEN carry([v EXCEPT ![index + 1] = 0, ![index] = v[index] + 1], index - 1)
       ELSE carry(v, index - 1)

\* The while loop: entered with layers = [0], its guard layers[0] != 0 is
\* false on entry, so the body never runs.
RECURSIVE find_loop(_, _, _, _, _, _)
find_loop(st, child_layer, direction, counters, current, fuel) ==
  IF counters[1] = 0 \/ fuel = 0 THEN current
  ELSE LET index == Max(st[current].layer - child_layer, 0)
           grown == resize(counters, index + 1)
           bumped == [grown EXCEPT ![index + 1] = grown[index + 1] + 1]
           carried == carry(bumped, Len(bumped) - 1)
           next == get_cardinal_neighbor_index(st[current], next_neighbor(direction))
       IN IF next = None \/ next \notin DOMAIN st THEN None
          ELSE find_loop(st, child_layer, direction, carried, next, fuel - 1)

find_cardinal_neighbor(st, child_layer, direction, inherited_neighbor) ==
  IF inherited_neighbor \notin DOMAIN st THEN None
  ELSE LET current == find_loop(st, child_layer, direction, <<0>>,
                                inherited_neighbor, Cardinality(DOMAIN st))
       IN IF current = None THEN None
          ELSE get_cardinal_neighbor_index(st[current], next_neighbor(direction))

(* ------------------------- the tree (slottree.rs) --------------------- *)

\* A tree value: the slot map, the per-depth counters and the slot map's
\* allocation counter.
Tree(st, lay, nk) == [store |-> st, layers |-> lay, nextKey |-> nk]

get_max_level(lay) ==
  CHOOSE m \in 0..(Len(lay) - 1) :
    /\ lay[m + 1] > 0
    /\ \A j \in 0..(Len(lay) - 1) : lay[j + 1] > 0 => j <= m

get_children_cardinal_neighbors(st, cardinal_neighbor, parent_layer, cardinality) ==
  IF cardinal_neighbor = None THEN <<None, None>>
  ELSE << cardinal_neighbor,
          find_cardinal_neighbor(st, parent_layer + 1, cardinality, cardinal_neighbor) >>

\* n_neighbors.as_ref().and_then(|n| n.first().cloned())
first_neighbor(nv) == IF nv.some /\ Len(nv.vec) > 0 THEN nv.vec[1] ELSE None

\* The for loop of update_neighbors_to_children; the unwrap of an absent
\* second_child_cardinal_neighbor panics at the first neighbor.
RECURSIVE update_loop(_, _, _, _, _, _, _)
update_loop(st, vec, i, new_neighbor, second_child, second_child_cardinal_neighbor, cardinality) ==
  IF i > Len(vec) THEN [store |-> st, panic |-> FALSE]
  ELSE IF second_child_cardinal_neighbor = None THEN [store |-> st, panic |-> TRUE]
  ELSE LET nn == IF vec[i] = second_child_cardinal_neighbor
                 THEN second_child ELSE new_neighbor
       IN update_loop(update_neighbor(st, vec[i], nn, cardinality), vec, i + 1, nn,
                      second_child, second_child_cardinal_neighbor, cardinality)

update_neighbors_to_children(st, neighbors, first_child, second_child, second_child_cardinal_neighbor, cardinality) ==
  IF ~neighbors.some THEN [store |-> st, panic |-> FALSE]
  ELSE update_loop(st, neighbors.vec, 1, first_child, second_child,
                   second_child_cardinal_neighbor, cardinality)

\* The precondition match of subdivide without the has_children arm.
subdivide_check_no_children_arm(st, index) ==
  IF index \notin DOMAIN st THEN "InvalidIndex" ELSE "Ok"

\* The precondition match of subdivide.
subdivide_check(st, index) ==
  IF index \in DOMAIN st /\ ~has_children(st[index]) THEN "Ok"
  ELSE IF index \in DOMAIN st /\ has_children(st[index]) THEN "AlreadySubdivided"
  ELSE "InvalidIndex"

\* child_bounds with the NE and SW quadrants exchanged.
child_bounds_ne_sw_swapped(bounds) ==
  LET left == bounds[1]  top == bounds[2]  right == bounds[3]  bottom == bounds[4]
      x_middle == (left + right) \div 2
      y_middle == (top + bottom) \div 2
  IN << <<left, top, x_middle, y_middle>>, <<left, y_middle, x_middle, bottom>>,
        <<x_middle, top, right, y_middle>>, <<x_middle, y_middle, right, bottom>> >>

\* The bounds of the four children, in NW/NE/SW/SE order.
child_bounds(bounds) ==
  LET left == bounds[1]  top == bounds[2]  right == bounds[3]  bottom == bounds[4]
      x_middle == (left + right) \div 2
      y_middle == (top + bottom) \div 2
  IN << <<left, top, x_middle, y_middle>>, <<x_middle, top, right, y_middle>>,
        <<left, y_middle, x_middle, bottom>>, <<x_middle, y_middle, right, bottom>> >>

SubResult(t, ret, out) ==
  [store |-> t.store, layers |-> t.layers, nextKey |-> t.nextKey,
   ret |-> ret, out |-> out]

\* One call of update_neighbors_to_children in subdivide.
Step(neighbors, first_child, second_child, second_child_cardinal_neighbor, cardinality) ==
  [neighbors |-> neighbors, first_child |-> first_child, second_child |-> second_child,
   second_child_cardinal_neighbor |-> second_child_cardinal_neighbor,
   cardinality |-> cardinality]

\* The four calls of update_neighbors_to_children, in the order West, North,
\* East, South; a panic in one of them ends the call with the store as it is.
RECURSIVE update_all(_, _, _)
update_next(u, steps, i) == IF u.panic THEN u ELSE update_all(u.store, steps, i + 1)

update_all(st, steps, i) ==
  IF i > Len(steps) THEN [store |-> st, panic |-> FALSE]
  ELSE update_next(update_neighbors_to_children(st, steps[i].neighbors,
                     steps[i].first_child, steps[i].second_child,
                     steps[i].second_child_cardinal_neighbor, steps[i].cardinality),
                   steps, i)

\* Create and insert the child nodes, then set their neighbors.
insert_children(st, index, items, keys, cb, n_pair, w_pair, s_pair, e_pair) ==
  LET layer == st[index].layer + 1
      nw_key == keys[1]  ne_key == keys[2]  sw_key == keys[3]  se_key == keys[4]
      ne_n_neighbor == n_pair[1]   nw_n_neighbor == n_pair[2]
      sw_w_neighbor == w_pair[1]   nw_w_neighbor == w_pair[2]
      sw_s_neighbor == s_pair[1]   se_s_neighbor == s_pair[2]
      ne_e_neighbor == e_pair[1]   se_e_neighbor == e_pair[2]
  IN [k \in DOMAIN st \cup {nw_key, ne_key, sw_key, se_key} |->
        IF k = nw_key
        THEN [CNNode_new(items[1], layer, cb[1], index)
                EXCEPT !.neighbors = <<nw_w_neighbor, nw_n_neighbor, ne_key, sw_key>>]
        ELSE IF k = ne_key
        THEN [CNNode_new(items[2], layer, cb[2], index)
                EXCEPT !.neighbors = <<nw_key, ne_n_neighbor, ne_e_neighbor, se_key>>]
        ELSE IF k = sw_key
        THEN [CNNode_new(items[3], layer, cb[3], index)
                EXCEPT !.neighbors = <<sw_w_neighbor, nw_key, se_key, sw_s_neighbor>>]
        ELSE IF k = se_key
        THEN [CNNode_new(items[4], layer, cb[4], index)
                EXCEPT !.neighbors = <<sw_key, ne_key, se_e_neighbor, se_s_neighbor>>]
        ELSE st[k]]

\* self.layers[layer] += delta
add_layer(lay, layer, delta) == [lay EXCEPT ![layer + 1] = lay[layer + 1] + delta]

\* subdivide_finish recording the children in the parent in reverse order.
subdivide_finish_children_reversed(t, index, keys, u) ==
  IF u.panic
  THEN [store |-> u.store, layers |-> t.layers, nextKey |-> t.nextKey + 4,
        ret |-> "panic", out |-> keys]
  ELSE [store |-> [u.store EXCEPT ![index].neighbors = <<None, None, None, None>>,
                                  ![index].children = <<keys[4], keys[3], keys[2], keys[1]>>],
        layers |-> add_layer(resize(t.layers, t.store[index].layer + 2),
                             t.store[index].layer + 1, 4),
        nextKey |-> t.nextKey + 4,
        ret |-> "Ok", out |-> keys]

\* Update the parent and the per-depth counters; u is the outcome of the
\* neighbor updates.
subdivide_finish(t, index, keys, u) ==
  IF u.panic
  THEN [store |-> u.store, layers |-> t.layers, nextKey |-> t.nextKey + 4,
        ret |-> "panic", out |-> keys]
  ELSE [store |-> [u.store EXCEPT ![index].neighbors = <<None, None, None, None>>,
                                  ![index].children = keys],
        layers |-> add_layer(resize(t.layers, t.store[index].layer + 2),
                             t.store[index].layer + 1, 4),
        nextKey |-> t.nextKey + 4,
        ret |-> "Ok", out |-> keys]

\* From the inherited and calculated cardinal neighbors on.
subdivide_with_pairs(t, index, items, keys, w_neighbors, n_neighbors, e_neighbors, s_neighbors, n_pair, w_pair, s_pair, e_pair) ==
  subdivide_finish(t, index, keys,
    update_all(
      insert_children(t.store, index, items, keys, child_bounds(t.store[index].bounds),
                      n_pair, w_pair, s_pair, e_pair),
      << Step(w_neighbors, keys[1], keys[3], w_pair[1], West),
         Step(n_neighbors, keys[1], keys[2], n_pair[1], North),
         Step(e_neighbors, keys[4], keys[2], e_pair[2], East),
         Step(s_neighbors, keys[3], keys[4], s_pair[1], South) >>,
      1))

\* From the four neighbor lists on.  A walk that never ends keeps the call
\* from returning ("hang").
subdivide_with_neighbors(t, index, items, w_neighbors, n_neighbors, e_neighbors, s_neighbors) ==
  IF w_neighbors.hang \/ n_neighbors.hang \/ e_neighbors.hang \/ s_neighbors.hang
  THEN SubResult(t, "hang", << >>)
  ELSE subdivide_with_pairs(t, index, items,
         <<t.nextKey, t.nextKey + 1, t.nextKey + 2, t.nextKey + 3>>,
         w_neighbors, n_neighbors, e_neighbors, s_neighbors,
         get_children_cardinal_neighbors(t.store, first_neighbor(n_neighbors),
                                         t.store[index].layer, North),
         get_children_cardinal_neighbors(t.store, first_neighbor(w_neighbors),
                                         t.store[index].layer, West),
         get_children_cardinal_neighbors(t.store, first_neighbor(s_neighbors),
                                         t.store[index].layer, South),
         get_children_cardinal_neighbors(t.store, first_neighbor(e_neighbors),
                                         t.store[index].layer, East))

subdivide(t, index, items) ==
  IF subdivide_check(t.store, index) # "Ok"
  THEN SubResult(t, subdivide_check(t.store, index), items)
  ELSE subdivide_with_neighbors(t, index, items,
         get_neighbors(t.store, index, West), get_neighbors(t.store, index, North),
         get_neighbors(t.store, index, East), get_neighbors(t.store, index, South))

\* The for loop of get_and_update_children_neighbors.
RECURSIVE redirect_loop(_, _, _, _, _)
redirect_loop(st, vec, i, parent, cardinality) ==
  IF i > Len(vec) THEN st
  ELSE redirect_loop(update_neighbor(st, vec[i], parent, opposite(cardinality)),
                     vec, i + 1, parent, cardinality)

\* get_and_update_children_neighbors from the two neighbor lists on.
redirect_to_parent(st, neighbors, other_neighbors, parent, cardinality) ==
  IF neighbors.hang THEN [store |-> st, ret |-> None, hang |-> TRUE]
  ELSE IF ~neighbors.some THEN [store |-> st, ret |-> None, hang |-> FALSE]
  ELSE IF other_neighbors.hang THEN [store |-> st, ret |-> None, hang |-> TRUE]
  ELSE IF ~other_neighbors.some THEN [store |-> st, ret |-> None, hang |-> FALSE]
  ELSE [store |-> redirect_loop(st, neighbors.vec \o other_neighbors.vec, 1,
                                parent, cardinality),
        ret |-> (neighbors.vec \o other_neighbors.vec)[1], hang |-> FALSE]

get_and_update_children_neighbors(st, first_child, second_child, parent, cardinality) ==
  redirect_to_parent(st, get_neighbors(st, first_child, cardinality),
                     get_neighbors(st, second_child, cardinality), parent, cardinality)

\* The precondition of pop_children without the check of the children.
pop_check_no_grandchildren_check(st, index) ==
  index \in DOMAIN st /\ has_children(st[index])

\* The precondition of pop_children: the node has children, all of them leaves.
pop_check(st, index) ==
  /\ index \in DOMAIN st
  /\ has_children(st[index])
  /\ \A i \in 1..4 : ~has_children(st[st[index].children[i]])

\* One of the four calls of get_and_update_children_neighbors in
\* pop_children: acc holds the store and the neighbors found so far.
pop_collect(acc, r) ==
  [store |-> r.store, rets |-> Append(acc.rets, r.ret), hang |-> r.hang]

pop_step(acc, first_child, second_child, parent, cardinality) ==
  IF acc.hang THEN acc
  ELSE pop_collect(acc, get_and_update_children_neighbors(acc.store, first_child,
                                                          second_child, parent, cardinality))

\* Update the parent and the counters, remove the children.
pop_finish(t, index, children, acc) ==
  IF acc.hang THEN SubResult(t, "hang", << >>)
  ELSE [store |-> [k \in DOMAIN acc.store \ Range(children) |->
                     IF k = index
                     THEN [acc.store[k] EXCEPT !.neighbors = acc.rets,
                                               !.children = NoChildren]
                     ELSE acc.store[k]],
        layers |-> add_layer(t.layers, t.store[index].layer + 1, -4),
        nextKey |-> t.nextKey,
        ret |-> "Some",
        out |-> [i \in 1..4 |-> acc.store[children[i]].item]]

\* children = [nw_key, ne_key, sw_key, se_key]
pop_with_children(t, index, children) ==
  pop_finish(t, index, children,
    pop_step(
      pop_step(
        pop_step(
          pop_step([store |-> t.store, rets |-> << >>, hang |-> FALSE],
                   children[1], children[3], index, West),
          children[1], children[2], index, North),
        children[4], children[2], index, East),
      children[4], children[3], index, South))

pop_children(t, index) ==
  IF ~pop_check(t.store, index) THEN SubResult(t, "None", << >>)
  ELSE pop_with_children(t, index, t.store[index].children)

(* -------------------- location_among_siblings (tree.rs) --------------- *)

\* children.into_iter().position(|x| self.get_node(x) == Some(node)): the
\* first slot whose node equals the given node, nodes being equal when their
\* bounds are equal; 4 when there is none.
RECURSIVE position(_, _, _, _)
position(st, children, bounds, i) ==
  IF i > 3 THEN 4
  ELSE IF children[i + 1] \in DOMAIN st /\ st[children[i + 1]].bounds = bounds THEN i
  ELSE position(st, children, bounds, i + 1)

location_among_siblings(st, index) ==
  IF index \notin DOMAIN st THEN [ret |-> "None", out |-> << >>]
  ELSE IF st[index].parent = None \/ st[index].parent \notin DOMAIN st
       THEN [ret |-> "None", out |-> << >>]
  ELSE IF ~has_children(st[st[index].parent]) THEN [ret |-> "None", out |-> << >>]
  ELSE IF position(st, st[st[index].parent].children, st[index].bounds, 0) = 4
       THEN [ret |-> "None", out |-> << >>]
  ELSE [ret |-> "Some",
        out |-> << position(st, st[st[index].parent].children, st[index].bounds, 0) >>]

(* ---------------------------- point_locate ---------------------------- *)

Pow2(n) == IF n <= 0 THEN 1 ELSE 2 ^ n

\* (code & (1 << level)) >> level
bit_at(code, level) == (code \div Pow2(level)) % 2

\* The locational code of one axis: ((coord - min) as f32 / extent as f32
\* * 2^max_level) as usize.  For the coordinates of this model (below 2^24)
\* the f32 quotient is within 2^-24 of the exact one and the scaling by a
\* power of two is exact, so the truncation equals the integer quotient.
loc_code(coord, min, extent, max_level) == ((coord - min) * Pow2(max_level)) \div extent

\* The while loop of point_locate.  next_level is a usize: at 0 the shift
\* amount next_level - 1 underflows, which panics when overflow checks are
\* on and otherwise wraps, the shift amount then being taken modulo the word
\* size so that the y bit is shifted out.  A wrapped next_level (< 0 here)
\* selects bit 63 of both codes, which is 0.
RECURSIVE descend(_, _, _, _, _, _)
descend(st, index, next_level, x_loc_code, y_loc_code, overflow_checks) ==
  IF ~has_children(st[index]) THEN [ret |-> "Some", out |-> <<index>>]
  ELSE IF next_level <= 0 /\ overflow_checks THEN [ret |-> "panic", out |-> << >>]
  ELSE LET child_index ==
             IF next_level >= 1
             THEN bit_at(x_loc_code, next_level) + 2 * bit_at(y_loc_code, next_level)
             ELSE IF next_level = 0 THEN bit_at(x_loc_code, 0)
             ELSE 0
       IN descend(st, st[index].children[child_index + 1], next_level - 1,
                  x_loc_code, y_loc_code, overflow_checks)

point_locate(t, root, point, overflow_checks) ==
  LET st == t.store
  IN IF root \notin DOMAIN st THEN [ret |-> "None", out |-> << >>]
     ELSE IF ~point_in(st[root].bounds, point) THEN [ret |-> "None", out |-> << >>]
     ELSE IF ~has_children(st[root]) THEN [ret |-> "Some", out |-> <<root>>]
     ELSE LET b == st[root].bounds
              width == b[3] - b[1]
              height == b[4] - b[2]
              max_level == get_max_level(t.layers)
              x_loc_code == loc_code(point[1], b[1], width, max_level)
              y_loc_code == loc_code(point[2], b[2], height, max_level)
          IN descend(st, root, max_level - 1, x_loc_code, y_loc_code, overflow_checks)

(* ------------------------------ the program --------------------------- *)

Call(op, index, dir, point, items, checks, ret, out) ==
  [op |-> op, index |-> index, dir |-> dir, point |-> point, items |-> items,
   checks |-> checks, ret |-> ret, out |-> out]

\* CNQuadtree::new(item, bounds)
Init ==
  \E bounds \in RootBounds :
    /\ root_key = 1
    /\ store = (1 :> CNNode_new(0, 0, bounds, None))
    /\ layers = <<1>>
    /\ nextKey = 2
    /\ panicked = FALSE
    /\ last = Call("new", 1, 0, <<0, 0>>, << >>, FALSE, "Ok", << >>)

Splits == (nextKey - 2) \div 4

Current == Tree(store, layers, nextKey)

\* Payload arrays handed to subdivide: four payloads no earlier call was given.
ItemChoices == { <<4 * Splits + 1, 4 * Splits + 2, 4 * Splits + 3, 4 * Splits + 4>> }

\* The state after a call that returned r.
Commit(r, op, index, items) ==
  /\ store' = r.store
  /\ layers' = r.layers
  /\ nextKey' = r.nextKey
  /\ panicked' = (r.ret \in {"panic", "hang"})
  /\ last' = Call(op, index, 0, <<0, 0>>, items, FALSE, r.ret, r.out)
  /\ UNCHANGED root_key

\* The state after a query that returned r.
Answer(r, op, index, dir, point, checks) ==
  /\ panicked' = (r.ret \in {"panic", "hang"})
  /\ last' = Call(op, index, dir, point, << >>, checks, r.ret, r.out)
  /\ UNCHANGED <<store, layers, nextKey, root_key>>

Subdivide(index, items) ==
  /\ ~panicked
  /\ (index \in DOMAIN store /\ ~has_children(store[index]))
        => (store[index].layer < MaxDepth /\ Splits < MaxSplits)
  /\ Commit(subdivide(Current, index, items), "subdivide", index, items)

PopChildren(index) ==
  /\ ~panicked
  /\ Commit(pop_children(Current, index), "pop_children", index, << >>)

\* Option<Vec<Index>> as a call outcome.
neighbors_outcome(nv) ==
  [ret |-> IF nv.hang THEN "hang" ELSE IF nv.some THEN "Some" ELSE "None",
   out |-> nv.vec]

GetNeighbors(index, direction) ==
  /\ ~panicked
  /\ Answer(neighbors_outcome(get_neighbors(store, index, direction)),
            "get_neighbors", index, direction, <<0, 0>>, FALSE)

PointLocate(point, overflow_checks) ==
  /\ ~panicked
  /\ Answer(point_locate(Current, root_key, point, overflow_checks),
            "point_locate", 0, 0, point, overflow_checks)

LocationAmongSiblings(index) ==
  /\ ~panicked
  /\ Answer(location_among_siblings(store, index), "location_among_siblings",
            index, 0, <<0, 0>>, FALSE)

Next ==
  \/ \E index \in 1..nextKey, items \in ItemChoices : Subdivide(index, items)
  \/ \E index \in 1..nextKey : PopChildren(index)
  \/ \E index \in 1..nextKey, direction \in Directions : GetNeighbors(index, direction)
  \/ \E point \in PointCoords \X PointCoords, overflow_checks \in BOOLEAN :
       PointLocate(point, overflow_checks)
  \/ \E index \in 1..nextKey : LocationAmongSiblings(index)

Spec == Init /\ [][Next]_vars

(* ------------------------- vocabulary of the claims ------------------- *)

Live(k) == k \in DOMAIN store
Leaf(k) == Live(k) /\ ~has_children(store[k])
Leaves == { k \in DOMAIN store : ~has_children(store[k]) }
Internal == { k \in DOMAIN store : has_children(store[k]) }

Min(a, b) == IF a <= b THEN a ELSE b

\* The half-open region of bounds b holds point p.
InRegion(b, p) == b[1] <= p[1] /\ p[1] < b[3] /\ b[2] <= p[2] /\ p[2] < b[4]

\* Point p lies strictly inside bounds b.
StrictlyInside(b, p) == b[1] < p[1] /\ p[1] < b[3] /\ b[2] < p[2] /\ p[2] < b[4]

\* Intervals [lo1, hi1) and [lo2, hi2) share a stretch of positive length.
Overlap(lo1, hi1, lo2, hi2) == Max(lo1, lo2) < Min(hi1, hi2)

\* The region of node b touches the region of node a across a's side d.
Borders(a, b, d) ==
  CASE d = West  -> b.bounds[3] = a.bounds[1]
                    /\ Overlap(a.bounds[2], a.bounds[4], b.bounds[2], b.bounds[4])
    [] d = North -> b.bounds[4] = a.bounds[2]
                    /\ Overlap(a.bounds[1], a.bounds[3], b.bounds[1], b.bounds[3])
    [] d = East  -> b.bounds[1] = a.bounds[3]
                    /\ Overlap(a.bounds[2], a.bounds[4], b.bounds[2], b.bounds[4])
    [] d = South -> b.bounds[2] = a.bounds[4]
                    /\ Overlap(a.bounds[1], a.bounds[3], b.bounds[1], b.bounds[3])

\* Position of node b along a border of side d, growing in the direction of
\* the walk (next_neighbor(d)): West downwards, North eastwards, East
\* upwards, South westwards.
AlongBorder(b, d) ==
  CASE d = West  -> b.bounds[2]
    [] d = North -> b.bounds[1]
    [] d = East  -> 0 - b.bounds[2]
    [] d = South -> 0 - b.bounds[1]

\* The integer midpoint of a and b.
Mid(a, b) == CHOOSE m \in a..b : 2 * m <= a + b /\ a + b < 2 * m + 2

TreeUnchanged ==
  /\ store' = store
  /\ layers' = layers
  /\ nextKey' = nextKey
  /\ root_key' = root_key

(* -------------------------------- claims ------------------------------ *)

\* C1 (as claimed): neighbor symmetry.  For all live nodes A and B, if B is
\* in getNeighbors(A, East) then A is in getNeighbors(B, West).
C1_NeighborSymmetry ==
  ~panicked =>
    \A a \in DOMAIN store, b \in DOMAIN store :
      b \in Range(get_neighbors(store, a, East).vec)
        => a \in Range(get_neighbors(store, b, West).vec)

\* split(N, items) immediately followed by mergeChildren(N), from the
\* current tree.
SplitOf(n, items) == subdivide(Current, n, items)
MergeAfter(r, n) == pop_children(Tree(r.store, r.layers, r.nextKey), n)

\* C2 (as claimed): round trip.  For every live leaf N, a split of N that
\* succeeds, immediately followed by mergeChildren(N), returns the same 4
\* payloads in the same order and leaves N's four neighbor pointers equal to
\* what they were before the split.
C2_SplitMergeRoundTrip ==
  ~panicked =>
    \A n \in Leaves : \A items \in ItemChoices :
      SplitOf(n, items).ret = "Ok" =>
        /\ MergeAfter(SplitOf(n, items), n).ret = "Some"
        /\ MergeAfter(SplitOf(n, items), n).out = items
        /\ MergeAfter(SplitOf(n, items), n).store[n].neighbors = store[n].neighbors

\* C3 (as claimed): split is all-or-nothing.  A split call ends with 4
\* indices or with one of the two precondition errors; it never stops after
\* having mutated part of the tree.
C3_SplitAllOrNothing ==
  last.op = "subdivide" =>
    /\ last.ret \in {"Ok", "InvalidIndex", "AlreadySubdivided"}
    /\ ~panicked

\* C4 (as claimed): getNeighbors(A, d) of a live leaf A lists exactly the
\* leaves whose regions border A on side d, each once, in order along the
\* border; and once the root and then its NW child have been split,
\* getNeighbors(NE, West) is NW's NE grandchild followed by NW's SE
\* grandchild.
C4_GetNeighborsBorder ==
  /\ (last.op = "get_neighbors" /\ Leaf(last.index)) =>
       /\ Range(last.out) = { b \in Leaves : Borders(store[last.index], store[b], last.dir) }
       /\ \A i \in 1..Len(last.out), j \in 1..Len(last.out) :
            i < j => /\ last.out[i] # last.out[j]
                     /\ Live(last.out[i]) /\ Live(last.out[j])
                        => AlongBorder(store[last.out[i]], last.dir)
                             < AlongBorder(store[last.out[j]], last.dir)
  /\ (/\ last.op = "subdivide" /\ last.ret = "Ok"
      /\ has_children(store[root_key])
      /\ last.index = store[root_key].children[NorthWest + 1]
      /\ \A i \in 2..4 : Leaf(store[root_key].children[i]))
       => get_neighbors(store, store[root_key].children[NorthEast + 1], West).vec
            = << last.out[NorthEast + 1], last.out[SouthEast + 1] >>

C6_SplitErrors ==
  [][ last'.op = "subdivide" =>
        /\ ~Live(last'.index) => last'.ret = "InvalidIndex"
        /\ (Live(last'.index) /\ has_children(store[last'.index]))
             => last'.ret = "AlreadySubdivided"
        /\ last'.ret \in {"InvalidIndex", "AlreadySubdivided"}
             => /\ last'.out = last'.items
                /\ Len(last'.out) = 4
                /\ TreeUnchanged
                /\ ~panicked' ]_vars

\* C6 witness: a split of a node that already has children was refused.
C6_Witness ==
  /\ last.op = "subdivide"
  /\ last.ret = "AlreadySubdivided"
  /\ Live(last.index) /\ has_children(store[last.index])

\* C7: mergeChildren on an invalid index, on a leaf, or on a node one of
\* whose children is subdivided returns absent and leaves the whole tree
\* state unchanged.
C7_MergeNoOp ==
  [][ ( /\ last'.op = "pop_children"
        /\ \/ ~Live(last'.index)
           \/ Leaf(last'.index)
           \/ \E i \in 1..4 : has_children(store[store[last'.index].children[i]]) )
      => /\ last'.ret = "None"
         /\ last'.out = << >>
         /\ TreeUnchanged
         /\ ~panicked' ]_vars

\* C7 witness: mergeChildren was refused on a node that has a subdivided
\* child.
C7_Witness ==
  /\ last.op = "pop_children"
  /\ last.ret = "None"
  /\ Live(last.index) /\ has_children(store[last.index])
  /\ \E i \in 1..4 : has_children(store[store[last.index].children[i]])

\* C8 (as claimed): pointLocate of a point strictly inside a leaf's bounds
\* returns that leaf, also in trees of maximum depth 1 and for leaves at the
\* maximum populated depth.
C8_PointLocateLeaf ==
  last.op = "point_locate" =>
    \A k \in Leaves :
      StrictlyInside(store[k].bounds, last.point)
        => last.ret = "Some" /\ last.out = <<k>>

\* C9: pointLocate of a point outside the root's half-open bounds returns
\* absent; with a leaf root, every point inside the root's bounds returns
\* the root index.
C9_PointLocateBoundary ==
  last.op = "point_locate" =>
    /\ ~InRegion(store[root_key].bounds, last.point) => last.ret = "None"
    /\ (Leaf(root_key) /\ InRegion(store[root_key].bounds, last.point))
         => last.ret = "Some" /\ last.out = <<root_key>>

\* C9 witness: a point on the root's maximum edge was located in a
\* subdivided tree and the answer was absent.
C9_Witness ==
  /\ last.op = "point_locate"
  /\ has_children(store[root_key])
  /\ last.point[1] = store[root_key].bounds[3]
  /\ store[root_key].bounds[2] <= last.point[2]
  /\ last.point[2] < store[root_key].bounds[4]
  /\ last.ret = "None"

\* The children of node p have the bounds the quadrants of (l, t, r, b) have.
QuadrantBounds(p) ==
  LET l == store[p].bounds[1]  t == store[p].bounds[2]
      r == store[p].bounds[3]  b == store[p].bounds[4]
      c == store[p].children
  IN /\ store[c[NorthWest + 1]].bounds = <<l, t, Mid(l, r), Mid(t, b)>>
     /\ store[c[NorthEast + 1]].bounds = <<Mid(l, r), t, r, Mid(t, b)>>
     /\ store[c[SouthWest + 1]].bounds = <<l, Mid(t, b), Mid(l, r), b>>
     /\ store[c[SouthEast + 1]].bounds = <<Mid(l, r), Mid(t, b), r, b>>

\* The children's regions tile the region of node p: a point of p's region
\* lies in exactly one of them, a point outside it in none.  The points
\* tried are those at and next to every edge and midpoint.
TilesParent(p) ==
  LET bd == store[p].bounds
      c == store[p].children
      xs == UNION { {x - 1, x, x + 1} : x \in {bd[1], Mid(bd[1], bd[3]), bd[3]} }
      ys == UNION { {y - 1, y, y + 1} : y \in {bd[2], Mid(bd[2], bd[4]), bd[4]} }
  IN \A pt \in xs \X ys :
       Cardinality({ i \in 1..4 : InRegion(store[c[i]].bounds, pt) })
         = IF InRegion(bd, pt) THEN 1 ELSE 0

\* C10: every split node's children have the quadrant bounds NW, NE, SW, SE
\* around the axis midpoints, their regions tile the parent's region, and
\* each child is one level deeper; the root (0,0,100,100) gives
\* (0,0,50,50), (50,0,100,50), (0,50,50,100), (50,50,100,100).
C10_ChildGeometry ==
  ~panicked =>
    \A p \in Internal :
      /\ QuadrantBounds(p)
      /\ TilesParent(p)
      /\ \A i \in 1..4 : store[store[p].children[i]].layer = store[p].layer + 1
      /\ store[p].bounds = <<0, 0, 100, 100>> =>
           /\ store[store[p].children[1]].bounds = <<0, 0, 50, 50>>
           /\ store[store[p].children[2]].bounds = <<50, 0, 100, 50>>
           /\ store[store[p].children[3]].bounds = <<0, 50, 50, 100>>
           /\ store[store[p].children[4]].bounds = <<50, 50, 100, 100>>

\* C10 witness: a node below the root was split successfully.
C10_Witness ==
  /\ last.op = "subdivide"
  /\ last.ret = "Ok"
  /\ store[last.index].layer = 1
  /\ has_children(store[last.index])

\* C11: a successful split returns 4 fresh, pairwise distinct live indices
\* in NW/NE/SW/SE order; the i-th returned node holds the i-th input
\* payload and has the split node as parent, and the split node's children
\* slot lists the same 4 indices in the same order.
C11_SplitResult ==
  [][ (last'.op = "subdivide" /\ last'.ret = "Ok") =>
        /\ Len(last'.out) = 4
        /\ \A i \in 1..4 :
             /\ last'.out[i] \notin DOMAIN store
             /\ last'.out[i] >= nextKey
             /\ last'.out[i] \in DOMAIN store'
             /\ store'[last'.out[i]].item = last'.items[i]
             /\ store'[last'.out[i]].parent = last'.index
             /\ \A j \in 1..4 : i # j => last'.out[i] # last'.out[j]
        /\ store'[last'.index].children = last'.out ]_vars

\* C11 witness: a node below the root was split successfully and its SE
\* child holds the 4th payload.
C11_Witness ==
  /\ last.op = "subdivide"
  /\ last.ret = "Ok"
  /\ last.index # root_key
  /\ store[last.index].children = last.out
  /\ store[last.out[SouthEast + 1]].item = last.items[4]

\* C12 (as claimed): locationAmongSiblings of the child stored in quadrant
\* slot k of a split node returns k; for the root and for an index that is
\* not live it returns absent.
C12_LocationAmongSiblings ==
  last.op = "location_among_siblings" =>
    /\ \A p \in Internal : \A k \in 0..3 :
         store[p].children[k + 1] = last.index
           => last.ret = "Some" /\ last.out = <<k>>
    /\ (last.index = root_key \/ ~Live(last.index)) => last.ret = "None"

\* C13: for every direction d, opposite(d) = (d + 2) mod 4 and
\* opposite(opposite(d)) = d; next_neighbor maps West to South, North to
\* East, East to North and South to West, and applied 4 times it returns
\* the original direction.  The direction is the one handed to the last
\* call (West for a call that takes none).
C13_DirectionModel ==
  /\ last.dir \in Directions
  /\ last.dir \in {West, North, East, South}
  /\ <<West, North, East, South>> = <<0, 1, 2, 3>>
  /\ opposite(last.dir) \in Directions
  /\ opposite(last.dir) = (last.dir + 2) % 4
  /\ opposite(opposite(last.dir)) = last.dir
  /\ next_neighbor(last.dir) \in Directions
  /\ next_neighbor(next_neighbor(next_neighbor(next_neighbor(last.dir)))) = last.dir
  /\ last.dir = West => next_neighbor(last.dir) = South
  /\ last.dir = North => next_neighbor(last.dir) = East
  /\ last.dir = East => next_neighbor(last.dir) = North
  /\ last.dir = South => next_neighbor(last.dir) = West

\* C13 witness: a neighbor walk to the West that went on from the first
\* neighbor to its South neighbor and read that node's East pointer.
C13_Witness ==
  /\ last.op = "get_neighbors"
  /\ last.ret = "Some"
  /\ last.dir = West
  /\ Live(store[last.out[1]].neighbors[next_neighbor(West) + 1])
  /\ store[store[last.out[1]].neighbors[South + 1]].neighbors[opposite(West) + 1] # None

\* C14 (as claimed): invariant I4.  Every present neighbor pointer of a live
\* leaf in direction d refers to a live leaf whose region touches the leaf's
\* region across its d border.  Stated for the root (0,0,100,100), where
\* every region has positive width and height.
C14_PointerValidity ==
  (~panicked /\ store[root_key].bounds = <<0, 0, 100, 100>>) =>
    \A a \in Leaves : \A d \in Directions :
      store[a].neighbors[d + 1] # None =>
        /\ Leaf(store[a].neighbors[d + 1])
        /\ Borders(store[a], store[store[a].neighbors[d + 1]], d)

\* The two children, of the four in keys, that lie on the d border of the
\* split node.
BorderChildren(keys, d) ==
  CASE d = West  -> {keys[NorthWest + 1], keys[SouthWest + 1]}
    [] d = North -> {keys[NorthWest + 1], keys[NorthEast + 1]}
    [] d = East  -> {keys[NorthEast + 1], keys[SouthEast + 1]}
    [] d = South -> {keys[SouthWest + 1], keys[SouthEast + 1]}

\* C15 (as claimed): after a successful split of node N, every node that
\* was in getNeighbors(N, d) before the split has its pointer in direction
\* opposite(d) set to one of N's new children on the d border, and none of
\* its other three pointers is changed by the split.
C15_SplitBackPointers ==
  [][ (last'.op = "subdivide" /\ last'.ret = "Ok") =>
        \A d \in Directions :
          \A m \in Range(get_neighbors(store, last'.index, d).vec) :
            /\ store'[m].neighbors[opposite(d) + 1] \in BorderChildren(last'.out, d)
            /\ \A e \in Directions \ {opposite(d)} :
                 store'[m].neighbors[e + 1] = store[m].neighbors[e + 1] ]_vars

\* The child, of the four in keys, whose pointer in direction d comes from
\* the cross-level finder: NW for North and West, SE for South and East.
LookedUpChild(keys, d) ==
  IF d \in {North, West} THEN keys[NorthWest + 1] ELSE keys[SouthEast + 1]

\* C16 (as claimed): when a split node N had a neighbor M in direction d,
\* the pointer in direction d of the looked-up child is a live node whose
\* region borders that child across d, and it is M itself when M is at N's
\* depth or shallower.  Stated for the root (0,0,100,100), where every
\* region has positive width and height.
C16_CrossLevelFinder ==
  [][ ( /\ last'.op = "subdivide" /\ last'.ret = "Ok"
        /\ store[root_key].bounds = <<0, 0, 100, 100>> ) =>
        \A d \in Directions :
          Live(store[last'.index].neighbors[d + 1]) =>
            /\ store'[LookedUpChild(last'.out, d)].neighbors[d + 1] \in DOMAIN store'
            /\ Borders(store'[LookedUpChild(last'.out, d)],
                       store'[store'[LookedUpChild(last'.out, d)].neighbors[d + 1]], d)
            /\ store[store[last'.index].neighbors[d + 1]].layer <= store[last'.index].layer
                 => store'[LookedUpChild(last'.out, d)].neighbors[d + 1]
                      = store[last'.index].neighbors[d + 1] ]_vars

\* The two children of a merged node that border its side d, in the order
\* mergeChildren takes them: (NW, SW) for West, (NW, NE) for North,
\* (SE, NE) for East, (SE, SW) for South.
MergePair(children, d) ==
  CASE d = West  -> <<children[NorthWest + 1], children[SouthWest + 1]>>
    [] d = North -> <<children[NorthWest + 1], children[NorthEast + 1]>>
    [] d = East  -> <<children[SouthEast + 1], children[NorthEast + 1]>>
    [] d = South -> <<children[SouthEast + 1], children[SouthWest + 1]>>

\* The concatenation of the neighbor lists of the two children bordering d,
\* an absent list counting as empty.
MergeList(children, d) ==
  get_neighbors(store, MergePair(children, d)[1], d).vec
    \o get_neighbors(store, MergePair(children, d)[2], d).vec

\* C17 (as claimed): after a successful mergeChildren(N), for each direction
\* d every node in the concatenation of the neighbor lists of the two
\* children bordering d has its opposite(d) pointer equal to N, and N's
\* pointer in direction d is the first entry of that list, absent only when
\* the list is empty.  Stated for the root (0,0,100,100).
C17_MergeRewiring ==
  [][ ( /\ last'.op = "pop_children" /\ last'.ret = "Some"
        /\ store[root_key].bounds = <<0, 0, 100, 100>> ) =>
        \A d \in Directions :
          /\ \A m \in Range(MergeList(store[last'.index].children, d)) :
               m \in DOMAIN store' => store'[m].neighbors[opposite(d) + 1] = last'.index
          /\ store'[last'.index].neighbors[d + 1]
               = IF MergeList(store[last'.index].children, d) = << >> THEN None
                 ELSE MergeList(store[last'.index].children, d)[1] ]_vars

\* C18 (as claimed): invariant I3.  Every internal node (a node with
\* children) has all 4 neighbor slots absent: no split or merge of another
\* node writes a neighbor pointer into it.  Stated for the root
\* (0,0,100,100).
C18_InternalNodesCleared ==
  (~panicked /\ store[root_key].bounds = <<0, 0, 100, 100>>) =>
    \A p \in Internal : store[p].neighbors = <<None, None, None, None>>

\* C19 (as claimed): no dangling indices.  Every parent, child and neighbor
\* index stored in a live node resolves to a live node; after mergeChildren
\* no live node holds a neighbor pointer to a removed child.  Stated for
\* the root (0,0,100,100).
C19_NoDanglingIndices ==
  (~panicked /\ store[root_key].bounds = <<0, 0, 100, 100>>) =>
    \A k \in DOMAIN store :
      /\ store[k].parent # None => Live(store[k].parent)
      /\ \A i \in 1..Len(store[k].children) : Live(store[k].children[i])
      /\ \A d \in Directions :
           store[k].neighbors[d + 1] # None => Live(store[k].neighbors[d + 1])

\* C20 (as claimed): after a successful split of node N the direct-inherit
\* child on each border holds N's former pointer for that direction
\* (NE.North = N.North, SW.West = N.West, SW.South = N.South, NE.East =
\* N.East, values taken before the split), and whenever N had no neighbor in
\* a direction both children on that border have an absent pointer in that
\* direction.  Stated for the root (0,0,100,100).
C20_SplitInheritance ==
  [][ ( /\ last'.op = "subdivide" /\ last'.ret = "Ok"
        /\ store[root_key].bounds = <<0, 0, 100, 100>> ) =>
        /\ store'[last'.out[NorthEast + 1]].neighbors[North + 1]
             = store[last'.index].neighbors[North + 1]
        /\ store'[last'.out[SouthWest + 1]].neighbors[West + 1]
             = store[last'.index].neighbors[West + 1]
        /\ store'[last'.out[SouthWest + 1]].neighbors[South + 1]
             = store[last'.index].neighbors[South + 1]
        /\ store'[last'.out[NorthEast + 1]].neighbors[East + 1]
             = store[last'.index].neighbors[East + 1]
        /\ \A d \in Directions :
             store[last'.index].neighbors[d + 1] = None =>
               \A c \in BorderChildren(last'.out, d) :
                 store'[c].neighbors[d + 1] = None ]_vars

\* C21 (as claimed): bounds uniqueness.  No two distinct live nodes have
\* equal bounds, also with integer coordinates and splits down to regions
\* of width or height 1 or 0.
C21_BoundsUnique ==
  ~panicked =>
    \A a \in DOMAIN store : \A b \in DOMAIN store :
      a # b => store[a].bounds # store[b].bounds

\* The live nodes at depth d.
NodesAtDepth(d) == { k \in DOMAIN store : store[k].layer = d }

\* C22 (as claimed): per-depth population.  In every reachable state, for
\* every depth d the counter layers[d] equals the number of live nodes at
\* depth d (1 at depth 0, never negative, no live node deeper than the
\* counters reach), so the derived maximum level is the greatest depth of
\* any live node.
C22_PerDepthPopulation ==
  /\ Len(layers) >= 1
  /\ layers[1] = 1
  /\ \A k \in DOMAIN store : store[k].layer < Len(layers)
  /\ \A d \in 0..(Len(layers) - 1) :
       /\ layers[d + 1] >= 0
       /\ layers[d + 1] = Cardinality(NodesAtDepth(d))
  /\ NodesAtDepth(get_max_level(layers)) # {}
  /\ \A k \in DOMAIN store : store[k].layer <= get_max_level(layers)

\* Every node has either no children or exactly 4 live, pairwise distinct
\* children.
ChildrenWellFormed(k) ==
  has_children(store[k]) =>
    /\ Len(store[k].children) = 4
    /\ \A i \in 1..4 : Live(store[k].children[i])
    /\ \A i \in 1..4 : \A j \in 1..4 :
         i # j => store[k].children[i] # store[k].children[j]

\* A node other than the root has a live parent, one level up, whose
\* children slot holds the node exactly once.
ParentWellFormed(k) ==
  /\ store[k].parent # None
  /\ Live(store[k].parent)
  /\ store[store[k].parent].layer = store[k].layer - 1
  /\ Cardinality({ i \in 1..Len(store[store[k].parent].children) :
                     store[store[k].parent].children[i] = k }) = 1

\* C23 (as claimed): structural well-formedness.  The root index is live
\* with depth 0 and no parent; every other live node has a live parent
\* whose children slot contains that node exactly once and whose depth is
\* one less; every node has either no children or exactly 4 live, pairwise
\* distinct children.
C23_WellFormed ==
  /\ Live(root_key)
  /\ store[root_key].layer = 0
  /\ store[root_key].parent = None
  /\ \A k \in DOMAIN store :
       /\ ChildrenWellFormed(k)
       /\ k # root_key => ParentWellFormed(k)

\* A sequence holds no index twice.
NoRepeat(v) == \A i \in 1..Len(v) : \A j \in 1..Len(v) : i # j => v[i] # v[j]

\* C24 (as claimed): neighbor-walk termination.  For every live node and
\* direction the getNeighbors walk ends and never appends the same index
\* twice, and no split or merge is kept from returning by a walk.
C24_WalkTerminates ==
  /\ last.ret # "hang"
  /\ \A k \in DOMAIN store : \A d \in Directions :
       /\ ~get_neighbors(store, k, d).hang
       /\ NoRepeat(get_neighbors(store, k, d).vec)

====
